---- MODULE Spec2Model ----
(***************************************************************************)
(* Persistence codec of the configuration store (TableKey and              *)
(* TableClientConfig hooks) and the Apertus provider's resolver.           *)
(*                                                                         *)
(* Representation of Go values:                                            *)
(*   string            a sequence of characters, "" is << >>               *)
(*   *T, []T, map      an option: None is nil, Some(x) is a non-nil value  *)
(*   map[string]string a function from a set of names to names             *)
(*   JSON text         a sequence of tokens; a name n stands for the       *)
(*                     string literal "n"                                  *)
(***************************************************************************)
EXTENDS Integers, Sequences, FiniteSets, TLC

VARIABLES
    k,          \* the TableKey struct a hook runs on
    pc,         \* where the record is in its life: built, saved, scanned, found
    err,        \* whether the last hook returned an error
    pre,        \* the TableKey struct as the last hook call received it
    orig,       \* the TableKey struct as the last BeforeSave received it
    fromSave,   \* whether the columns of k are those a BeforeSave produced
    cc,         \* the TableClientConfig struct a hook runs on
    ccpre,      \* the TableClientConfig struct as the last hook call received it
    provider,   \* the ApertusProvider, None before NewApertusProvider
    config,     \* the base URL the provider was configured with
    rkey,       \* the key of the last getBaseURL or getModelName call
    url,        \* what the last getBaseURL call returned
    rmodel,     \* the model name the last getModelName call was given
    mname,      \* what the last getModelName call returned
    customProviderConfig,   \* the provider's customProviderConfig, None is nil
    req,        \* the last dispatch call: operation, key(s), model, gate outcome
    steps,      \* what that call did, in the order it did it
    sent,       \* the request that call handed to a handler, None if none
    temp,       \* the transient provider that call constructed, None if none
    ret,        \* what that call returned: response and error
    stream,     \* the events on the stream that call returned
    produced,   \* what the handler that call invoked returned to it
    threads,    \* the concurrent callers of the provider: position, key, locals
    tp,         \* the TableProvider struct a hook runs on
    tppc,       \* where the provider record is in its life
    tplast,     \* the TableProvider struct as the last BeforeSave received it
    first       \* the request the first of two dispatches of one request sent

vars == <<k, pc, err, pre, orig, fromSave, cc, ccpre, provider, config, rkey, url, rmodel, mname,
          customProviderConfig, req, steps, sent, temp, ret, stream, produced,
          threads, tp, tppc, tplast, first>>

codecVars == <<k, pc, err, pre, orig, fromSave, cc, ccpre>>
resolverVars == <<provider, config, rkey, url, rmodel, mname>>
callVars == <<req, steps, sent, temp, ret, stream, produced>>
dispatchVars == <<customProviderConfig, req, steps, sent, temp, ret, stream, produced>>
providerTableVars == <<tp, tppc, tplast>>
otherVars == <<threads, providerTableVars, first>>

(***************************************************************************)
(* Bounds of the model.                                                    *)
(***************************************************************************)
\* populated in-memory fields of a key built by the application
MaxFields == 3
\* non-null columns of a stored row that was not written by BeforeSave,
\* counted together with the populated fields of the struct it is scanned into
MaxCols == 2
\* characters of a URL (endpoint or provider default)
MaxLen == 2
\* elements of an allowed-model list, and of the allowed-model lists of the
\* keys handed to ListModels taken together
MaxModels == 2
\* keys handed to ListModels
MaxKeys == 2
\* events on a stream
MaxEvents == 2

(***************************************************************************)
(* Options, strings, names.                                                *)
(***************************************************************************)
None == << >>
Some(x) == <<x>>
IsSome(o) == Len(o) > 0
Get(o) == o[1]

EmptyString == << >>

NameOrder == <<"a", "b">>
Names == {NameOrder[i] : i \in 1..Len(NameOrder)}

RECURSIVE StringsUpTo(_, _)
StringsUpTo(alphabet, n) ==
    IF n = 0 THEN {EmptyString}
    ELSE LET shorter == StringsUpTo(alphabet, n - 1)
         IN  shorter \cup {Append(s, c) : s \in shorter, c \in alphabet}

URLChars == {"h", "/"}
URLs == StringsUpTo(URLChars, MaxLen)
Scalars == {EmptyString, <<"s">>}
Lists == StringsUpTo(Names, MaxModels)
Maps == UNION {[D -> Names] : D \in SUBSET Names}

Perms(S) == {s \in [1..Cardinality(S) -> S] : \A i, j \in 1..Cardinality(S) : s[i] = s[j] => i = j}

(***************************************************************************)
(* encoding/json and sonic, on the two shapes the tables use: []string and *)
(* map[string]string.                                                      *)
(***************************************************************************)
RECURSIVE JoinTokens(_)
JoinTokens(items) ==
    IF Len(items) = 0 THEN << >>
    ELSE IF Len(items) = 1 THEN items[1]
    ELSE items[1] \o <<",">> \o JoinTokens(Tail(items))

\* json.Marshal of a non-nil []string
MarshalList(l) == <<"[">> \o JoinTokens([i \in 1..Len(l) |-> <<l[i]>>]) \o <<"]">>

\* the object text of map m with its keys written in the order keyOrder
MarshalMapInOrder(m, keyOrder) ==
    <<"{">> \o JoinTokens([i \in 1..Len(keyOrder) |-> <<keyOrder[i], ":", m[keyOrder[i]]>>]) \o <<"}">>

\* json.Marshal of a non-nil map[string]string: keys sorted
SortedKeys(m) == SelectSeq(NameOrder, LAMBDA n : n \in DOMAIN m)
MarshalMap(m) == MarshalMapInOrder(m, SortedKeys(m))

\* sonic.Marshal of a non-nil map[string]string: keys in map iteration order
SonicKeyOrders(m) == Perms(DOMAIN m)

IsListText(t) ==
    /\ Len(t) >= 2
    /\ t[1] = "[" /\ t[Len(t)] = "]"
    /\ LET n == Len(t) - 2
       IN  \/ n = 0
           \/ /\ n % 2 = 1
              /\ \A i \in 1..n : IF i % 2 = 1 THEN t[i + 1] \in Names ELSE t[i + 1] = ","

IsMapText(t) ==
    /\ Len(t) >= 2
    /\ t[1] = "{" /\ t[Len(t)] = "}"
    /\ LET n == Len(t) - 2
       IN  \/ n = 0
           \/ /\ n % 4 = 3
              /\ \A i \in 1..n :
                    CASE i % 4 = 1 -> t[i + 1] \in Names
                      [] i % 4 = 2 -> t[i + 1] = ":"
                      [] i % 4 = 3 -> t[i + 1] \in Names
                      [] OTHER     -> t[i + 1] = ","

\* json.Unmarshal(text, &slice): the slice afterwards and whether it failed.
\* The text is validated before anything is stored, and a value of another
\* shape is skipped, so a failed call leaves the slice as it was.
UnmarshalListReversed(t, old) ==
    IF t = <<"null">> THEN [val |-> None, err |-> FALSE]
    ELSE IF IsListText(t)
         THEN LET n == (Len(t) - 1) \div 2
              IN  [val |-> Some([i \in 1..n |-> t[2 * (n - i + 1)]]), err |-> FALSE]
         ELSE [val |-> old, err |-> TRUE]

UnmarshalList(t, old) ==
    IF t = <<"null">> THEN [val |-> None, err |-> FALSE]
    ELSE IF IsListText(t)
         THEN [val |-> Some([i \in 1..((Len(t) - 1) \div 2) |-> t[2 * i]]), err |-> FALSE]
         ELSE [val |-> old, err |-> TRUE]

\* json.Unmarshal(text, &m) into a nil map variable; a repeated key keeps
\* its last value.
UnmarshalMap(t) ==
    IF t = <<"null">> THEN [val |-> None, err |-> FALSE]
    ELSE IF IsMapText(t)
         THEN LET n    == (Len(t) + 1) \div 4
                  keys == {t[4 * i - 2] : i \in 1..n}
                  last(key) == CHOOSE i \in 1..n :
                                  /\ t[4 * i - 2] = key
                                  /\ \A j \in 1..n : t[4 * j - 2] = key => j <= i
              IN  [val |-> Some([key \in keys |-> t[4 * last(key)]]), err |-> FALSE]
         ELSE [val |-> None, err |-> TRUE]

(***************************************************************************)
(* TableKey: the stored columns and the virtual (in-memory) fields.        *)
(***************************************************************************)
AzureColumns == {"AzureEndpoint", "AzureAPIVersion", "AzureDeploymentsJSON"}
VertexColumns == {"VertexProjectID", "VertexRegion", "VertexAuthCredentials"}
BedrockColumns == {"BedrockAccessKey", "BedrockSecretKey", "BedrockSessionToken",
                   "BedrockRegion", "BedrockARN", "BedrockDeploymentsJSON"}
ApertusColumns == {"ApertusEndpoint"}
OverrideColumns == AzureColumns \cup VertexColumns \cup BedrockColumns \cup ApertusColumns
JSONColumns == {"AzureDeploymentsJSON", "BedrockDeploymentsJSON"}
VirtualFields == {"Models", "AzureKeyConfig", "VertexKeyConfig", "BedrockKeyConfig",
                  "ApertusKeyConfig"}
Groups == {"Azure", "Vertex", "Bedrock", "Apertus"}

GroupColumns(g) ==
    CASE g = "Azure"   -> AzureColumns
      [] g = "Vertex"  -> VertexColumns
      [] g = "Bedrock" -> BedrockColumns
      [] g = "Apertus" -> ApertusColumns

GroupField(g) ==
    CASE g = "Azure"   -> "AzureKeyConfig"
      [] g = "Vertex"  -> "VertexKeyConfig"
      [] g = "Bedrock" -> "BedrockKeyConfig"
      [] g = "Apertus" -> "ApertusKeyConfig"

\* the zero value of the struct
TableKey ==
    [ModelsJSON |-> EmptyString,
     AzureEndpoint |-> None, AzureAPIVersion |-> None, AzureDeploymentsJSON |-> None,
     VertexProjectID |-> None, VertexRegion |-> None, VertexAuthCredentials |-> None,
     BedrockAccessKey |-> None, BedrockSecretKey |-> None, BedrockSessionToken |-> None,
     BedrockRegion |-> None, BedrockARN |-> None, BedrockDeploymentsJSON |-> None,
     ApertusEndpoint |-> None,
     Models |-> None, AzureKeyConfig |-> None, VertexKeyConfig |-> None,
     BedrockKeyConfig |-> None, ApertusKeyConfig |-> None]

(***************************************************************************)
(* TableKey.BeforeSave, one operator per block of the function.            *)
(***************************************************************************)
\* a string sub-field goes to its column as a pointer, or as nil when ""
StringColumn(s) == IF s # EmptyString THEN Some(s) ELSE None

\* SaveModels without its else branch
SaveModelsKeepsColumn(key) ==
    IF IsSome(key.Models)
    THEN [key EXCEPT !.ModelsJSON = MarshalList(Get(key.Models))]
    ELSE key

SaveModels(key) ==
    IF IsSome(key.Models)
    THEN [key EXCEPT !.ModelsJSON = MarshalList(Get(key.Models))]
    ELSE [key EXCEPT !.ModelsJSON = <<"[", "]">>]

SaveAzure(key) ==
    IF IsSome(key.AzureKeyConfig)
    THEN LET c == Get(key.AzureKeyConfig)
         IN  [key EXCEPT !.AzureEndpoint = StringColumn(c.Endpoint),
                         !.AzureAPIVersion = c.APIVersion,
                         !.AzureDeploymentsJSON =
                             IF IsSome(c.Deployments)
                             THEN Some(MarshalMap(Get(c.Deployments)))
                             ELSE None]
    ELSE [key EXCEPT !.AzureEndpoint = None,
                     !.AzureAPIVersion = None,
                     !.AzureDeploymentsJSON = None]

SaveVertex(key) ==
    IF IsSome(key.VertexKeyConfig)
    THEN LET c == Get(key.VertexKeyConfig)
         IN  [key EXCEPT !.VertexProjectID = StringColumn(c.ProjectID),
                         !.VertexRegion = StringColumn(c.Region),
                         !.VertexAuthCredentials = StringColumn(c.AuthCredentials)]
    ELSE [key EXCEPT !.VertexProjectID = None,
                     !.VertexRegion = None,
                     !.VertexAuthCredentials = None]

\* keyOrder: the order in which sonic happens to write the deployments
SaveBedrock(key, keyOrder) ==
    IF IsSome(key.BedrockKeyConfig)
    THEN LET c == Get(key.BedrockKeyConfig)
         IN  [key EXCEPT !.BedrockAccessKey = StringColumn(c.AccessKey),
                         !.BedrockSecretKey = StringColumn(c.SecretKey),
                         !.BedrockSessionToken = c.SessionToken,
                         !.BedrockRegion = c.Region,
                         !.BedrockARN = c.ARN,
                         !.BedrockDeploymentsJSON =
                             IF IsSome(c.Deployments)
                             THEN Some(MarshalMapInOrder(Get(c.Deployments), keyOrder))
                             ELSE None]
    ELSE [key EXCEPT !.BedrockAccessKey = None,
                     !.BedrockSecretKey = None,
                     !.BedrockSessionToken = None,
                     !.BedrockRegion = None,
                     !.BedrockARN = None,
                     !.BedrockDeploymentsJSON = None]

\* SaveApertus without its outer else branch
SaveApertusKeepsColumn(key) ==
    IF IsSome(key.ApertusKeyConfig)
    THEN [key EXCEPT !.ApertusEndpoint = StringColumn(Get(key.ApertusKeyConfig).Endpoint)]
    ELSE key

SaveApertus(key) ==
    IF IsSome(key.ApertusKeyConfig)
    THEN [key EXCEPT !.ApertusEndpoint = StringColumn(Get(key.ApertusKeyConfig).Endpoint)]
    ELSE [key EXCEPT !.ApertusEndpoint = None]

\* marshalling a []string or a map[string]string cannot fail, so the
\* function always returns nil
BeforeSave(key, keyOrder) ==
    SaveApertus(SaveBedrock(SaveVertex(SaveAzure(SaveModels(key))), keyOrder))

\* the orders sonic may write the Bedrock deployments of key in
BedrockKeyOrders(key) ==
    IF IsSome(key.BedrockKeyConfig) /\ IsSome(Get(key.BedrockKeyConfig).Deployments)
    THEN SonicKeyOrders(Get(Get(key.BedrockKeyConfig).Deployments))
    ELSE {<< >>}

(***************************************************************************)
(* TableKey.AfterFind, one operator per block; each yields the struct and  *)
(* whether the function returned an error there.                           *)
(***************************************************************************)
Deref(p) == IF IsSome(p) THEN Get(p) ELSE EmptyString

FindModels(key) ==
    IF key.ModelsJSON # EmptyString
    THEN LET r == UnmarshalList(key.ModelsJSON, key.Models)
         IN  IF r.err THEN [k |-> key, err |-> TRUE]
             ELSE [k |-> [key EXCEPT !.Models = r.val], err |-> FALSE]
    ELSE [k |-> key, err |-> FALSE]

AzureGate(key) == IsSome(key.AzureEndpoint)

FindAzure(key) ==
    IF AzureGate(key)
    THEN LET d == IF IsSome(key.AzureDeploymentsJSON)
                  THEN UnmarshalMap(Get(key.AzureDeploymentsJSON))
                  ELSE [val |-> None, err |-> FALSE]
         IN  IF d.err THEN [k |-> key, err |-> TRUE]
             ELSE [k |-> [key EXCEPT !.AzureKeyConfig =
                              Some([Endpoint |-> Deref(key.AzureEndpoint),
                                    APIVersion |-> key.AzureAPIVersion,
                                    Deployments |-> d.val])],
                   err |-> FALSE]
    ELSE [k |-> key, err |-> FALSE]

VertexGate(key) ==
    IsSome(key.VertexProjectID) \/ IsSome(key.VertexRegion) \/ IsSome(key.VertexAuthCredentials)

FindVertex(key) ==
    IF VertexGate(key)
    THEN [k |-> [key EXCEPT !.VertexKeyConfig =
                     Some([ProjectID |-> Deref(key.VertexProjectID),
                           Region |-> Deref(key.VertexRegion),
                           AuthCredentials |-> Deref(key.VertexAuthCredentials)])],
          err |-> FALSE]
    ELSE [k |-> key, err |-> FALSE]

BedrockGate(key) ==
    \/ IsSome(key.BedrockAccessKey) \/ IsSome(key.BedrockSecretKey)
    \/ IsSome(key.BedrockSessionToken) \/ IsSome(key.BedrockRegion)
    \/ IsSome(key.BedrockARN)
    \/ (IsSome(key.BedrockDeploymentsJSON) /\ Get(key.BedrockDeploymentsJSON) # EmptyString)

FindBedrock(key) ==
    IF BedrockGate(key)
    THEN LET d == IF IsSome(key.BedrockDeploymentsJSON)
                  THEN UnmarshalMap(Get(key.BedrockDeploymentsJSON))
                  ELSE [val |-> None, err |-> FALSE]
         IN  IF d.err THEN [k |-> key, err |-> TRUE]
             ELSE [k |-> [key EXCEPT !.BedrockKeyConfig =
                              Some([AccessKey |-> Deref(key.BedrockAccessKey),
                                    SecretKey |-> Deref(key.BedrockSecretKey),
                                    SessionToken |-> key.BedrockSessionToken,
                                    Region |-> key.BedrockRegion,
                                    ARN |-> key.BedrockARN,
                                    Deployments |-> d.val])],
                   err |-> FALSE]
    ELSE [k |-> key, err |-> FALSE]

\* schemas.ApertusKeyConfig has the fields Endpoint and ModelNameMappings;
\* the composite literal sets Endpoint only, so the mappings are nil (the
\* first definition skips the group when an Azure override was rebuilt)
FindApertusUnlessAzure(key) ==
    IF IsSome(key.ApertusEndpoint) /\ ~IsSome(key.AzureKeyConfig)
    THEN [k |-> [key EXCEPT !.ApertusKeyConfig =
                     Some([Endpoint |-> Get(key.ApertusEndpoint),
                           ModelNameMappings |-> None])],
          err |-> FALSE]
    ELSE [k |-> key, err |-> FALSE]

FindApertus(key) ==
    IF IsSome(key.ApertusEndpoint)
    THEN [k |-> [key EXCEPT !.ApertusKeyConfig =
                     Some([Endpoint |-> Get(key.ApertusEndpoint),
                           ModelNameMappings |-> None])],
          err |-> FALSE]
    ELSE [k |-> key, err |-> FALSE]

AfterFind(key) ==
    LET m == FindModels(key) IN
    IF m.err THEN m ELSE
    LET a == FindAzure(m.k) IN
    IF a.err THEN a ELSE
    LET v == FindVertex(a.k) IN
    LET b == FindBedrock(v.k) IN
    IF b.err THEN b ELSE
    FindApertus(b.k)

(***************************************************************************)
(* TableClientConfig and its hooks.                                        *)
(***************************************************************************)
TableClientConfig ==
    [PrometheusLabelsJSON |-> EmptyString, AllowedOriginsJSON |-> EmptyString,
     PrometheusLabels |-> None, AllowedOrigins |-> None]

SavePrometheusLabels(c) ==
    IF IsSome(c.PrometheusLabels)
    THEN [c EXCEPT !.PrometheusLabelsJSON = MarshalList(Get(c.PrometheusLabels))]
    ELSE [c EXCEPT !.PrometheusLabelsJSON = <<"[", "]">>]

SaveAllowedOrigins(c) ==
    IF IsSome(c.AllowedOrigins)
    THEN [c EXCEPT !.AllowedOriginsJSON = MarshalList(Get(c.AllowedOrigins))]
    ELSE [c EXCEPT !.AllowedOriginsJSON = <<"[", "]">>]

ClientConfigBeforeSave(c) == SaveAllowedOrigins(SavePrometheusLabels(c))

ClientConfigAfterFind(c) ==
    LET l == IF c.PrometheusLabelsJSON # EmptyString
             THEN UnmarshalList(c.PrometheusLabelsJSON, c.PrometheusLabels)
             ELSE [val |-> c.PrometheusLabels, err |-> FALSE]
    IN  IF l.err THEN [cc |-> c, err |-> TRUE]
        ELSE LET c1 == [c EXCEPT !.PrometheusLabels = l.val]
                 o  == IF c.AllowedOriginsJSON # EmptyString
                       THEN UnmarshalList(c.AllowedOriginsJSON, c.AllowedOrigins)
                       ELSE [val |-> c.AllowedOrigins, err |-> FALSE]
             IN  IF o.err THEN [cc |-> c1, err |-> TRUE]
                 ELSE [cc |-> [c1 EXCEPT !.AllowedOrigins = o.val], err |-> FALSE]

(***************************************************************************)
(* The values the application and the store hand to the hooks.             *)
(***************************************************************************)
Pointers == {None} \cup {Some(s) : s \in Scalars}
MapOptions == {None} \cup {Some(m) : m \in Maps}
ListOptions == {None} \cup {Some(l) : l \in Lists}

AzureKeyConfigs == [Endpoint : Scalars, APIVersion : Pointers, Deployments : MapOptions]
VertexKeyConfigs == [ProjectID : Scalars, Region : Scalars, AuthCredentials : Scalars]
BedrockKeyConfigs ==
    [AccessKey : Scalars, SecretKey : Scalars, SessionToken : Pointers,
     Region : Pointers, ARN : Pointers, Deployments : MapOptions]
ApertusKeyConfigs == [Endpoint : URLs, ModelNameMappings : MapOptions]

\* texts a JSON column may hold: encodings of short lists and maps, the
\* null literal, the empty text and a truncated object
StoredTexts ==
    {EmptyString, <<"null">>, <<"{">>}
        \cup {MarshalList(l) : l \in {<< >>, <<"a">>}}
        \cup {MarshalMap(m) : m \in {x \in Maps : \A n \in DOMAIN x : n = "a" /\ x[n] = "b"}}

VirtualFieldOrder ==
    <<"Models", "AzureKeyConfig", "VertexKeyConfig", "BedrockKeyConfig", "ApertusKeyConfig">>
ColumnOrder ==
    <<"ModelsJSON", "AzureEndpoint", "AzureAPIVersion", "AzureDeploymentsJSON",
      "VertexProjectID", "VertexRegion", "VertexAuthCredentials",
      "BedrockAccessKey", "BedrockSecretKey", "BedrockSessionToken",
      "BedrockRegion", "BedrockARN", "BedrockDeploymentsJSON", "ApertusEndpoint">>

\* number of sub-fields of a config that are not their zero value
Populated(c) == Cardinality({f \in DOMAIN c : Len(c[f]) > 0})

\* how many populated fields a value of a TableKey field counts for
FieldWeight(f, v) ==
    IF Len(v) = 0 THEN 0
    ELSE IF f \in VirtualFields \ {"Models"} THEN 1 + Populated(Get(v))
    ELSE 1

FieldValues(f) ==
    CASE f = "Models"           -> ListOptions
      [] f = "AzureKeyConfig"   -> {None} \cup {Some(c) : c \in AzureKeyConfigs}
      [] f = "VertexKeyConfig"  -> {None} \cup {Some(c) : c \in VertexKeyConfigs}
      [] f = "BedrockKeyConfig" -> {None} \cup {Some(c) : c \in BedrockKeyConfigs}
      [] f = "ApertusKeyConfig" -> {None} \cup {Some(c) : c \in ApertusKeyConfigs}
      [] f = "ModelsJSON"       -> StoredTexts
      [] f \in JSONColumns      -> {None} \cup {Some(t) : t \in StoredTexts}
      [] f = "ApertusEndpoint"  -> {None} \cup {Some(u) : u \in URLs}
      [] OTHER                  -> Pointers

\* the structs that differ from key in the given fields only and have at
\* most budget populated fields among them
RECURSIVE Populate(_, _, _)
Populate(key, fields, budget) ==
    IF Len(fields) = 0 THEN {key}
    ELSE LET f == Head(fields)
         IN  UNION {Populate([key EXCEPT ![f] = v], Tail(fields), budget - FieldWeight(f, v)) :
                       v \in {x \in FieldValues(f) : FieldWeight(f, x) <= budget}}

VirtualWeight(key) ==
    LET W[i \in 0..Len(VirtualFieldOrder)] ==
            IF i = 0 THEN 0
            ELSE W[i - 1] + FieldWeight(VirtualFieldOrder[i], key[VirtualFieldOrder[i]])
    IN  W[Len(VirtualFieldOrder)]

Max(a, b) == IF a >= b THEN a ELSE b

\* a struct with the columns of row and the virtual fields of key
WithColumns(key, row) ==
    [f \in DOMAIN TableKey |-> IF f \in VirtualFields THEN key[f] ELSE row[f]]

(***************************************************************************)
(* The life of a record.                                                   *)
(***************************************************************************)
InitCodec ==
    /\ k = TableKey /\ pc = "init" /\ err = FALSE
    /\ pre = TableKey /\ orig = TableKey /\ fromSave = FALSE
    /\ cc = TableClientConfig /\ ccpre = TableClientConfig

InitResolver ==
    /\ provider = None /\ config = None /\ rkey = None /\ url = None
    /\ rmodel = None /\ mname = None

NoResult == [response |-> None, error |-> None]

InitDispatch ==
    /\ customProviderConfig = None /\ req = None /\ steps = << >>
    /\ sent = None /\ temp = None /\ ret = NoResult /\ stream = << >>
    /\ produced = NoResult
    /\ first = None

\* the callers of the provider
Threads == {"t1", "t2"}

IdleThread ==
    [pc |-> "idle", op |-> "", key |-> [ApertusKeyConfig |-> None],
     given |-> [ApertusKeyConfig |-> None], baseURL |-> None, temp |-> None, url |-> None]

InitConcurrent == threads = [t \in Threads |-> IdleThread]

\* the zero value of the TableProvider struct
TableProvider ==
    [NetworkConfigJSON |-> EmptyString, ConcurrencyBufferJSON |-> EmptyString,
     ProxyConfigJSON |-> EmptyString, CustomProviderConfigJSON |-> EmptyString,
     NetworkConfig |-> None, ConcurrencyAndBufferSize |-> None,
     ProxyConfig |-> None, CustomProviderConfig |-> None]

InitProviderTable == tp = TableProvider /\ tppc = "init" /\ tplast = TableProvider

Init == InitCodec /\ InitResolver /\ InitDispatch /\ InitConcurrent /\ InitProviderTable

\* the application builds a key and populates its virtual fields
NewKey ==
    /\ pc = "init"
    /\ \E key \in Populate(TableKey, VirtualFieldOrder, MaxFields) : k' = key
    /\ pc' = "mem"
    /\ UNCHANGED <<err, pre, orig, fromSave, cc, ccpre>>
    /\ UNCHANGED resolverVars
    /\ UNCHANGED dispatchVars
    /\ UNCHANGED otherVars

\* the store scans a row into a new struct
ScanRow ==
    /\ pc = "init"
    /\ \E row \in Populate(TableKey, ColumnOrder, MaxCols) : k' = row
    /\ pc' = "scanned"
    /\ UNCHANGED <<err, pre, orig, fromSave, cc, ccpre>>
    /\ UNCHANGED resolverVars
    /\ UNCHANGED dispatchVars
    /\ UNCHANGED otherVars

TableKeyBeforeSave ==
    /\ pc \in {"mem", "found"}
    /\ \E keyOrder \in BedrockKeyOrders(k) : k' = BeforeSave(k, keyOrder)
    /\ pre' = k /\ orig' = k /\ fromSave' = TRUE
    /\ err' = FALSE
    /\ pc' = "saved"
    /\ UNCHANGED <<cc, ccpre>>
    /\ UNCHANGED resolverVars
    /\ UNCHANGED dispatchVars
    /\ UNCHANGED otherVars

\* the store reads the saved row back into a new struct
Reload ==
    /\ pc = "saved"
    /\ k' = WithColumns(TableKey, k)
    /\ pc' = "scanned"
    /\ UNCHANGED <<err, pre, orig, fromSave, cc, ccpre>>
    /\ UNCHANGED resolverVars
    /\ UNCHANGED dispatchVars
    /\ UNCHANGED otherVars

\* the store scans a row into the struct of a key that was created and
\* saved; the struct keeps its virtual fields
Refetch ==
    /\ pc = "saved"
    /\ pre = WithColumns(pre, TableKey)
    /\ \E row \in Populate(TableKey, ColumnOrder, Max(0, MaxCols - VirtualWeight(k))) :
          k' = WithColumns(k, row)
    /\ pc' = "scanned"
    /\ orig' = TableKey /\ fromSave' = FALSE
    /\ UNCHANGED <<err, pre, cc, ccpre>>
    /\ UNCHANGED resolverVars
    /\ UNCHANGED dispatchVars
    /\ UNCHANGED otherVars

TableKeyAfterFind ==
    /\ pc \in {"scanned", "saved"}
    /\ LET r == AfterFind(k)
       IN  /\ k' = r.k
           /\ err' = r.err
           /\ pc' = IF r.err THEN "failed" ELSE "found"
    /\ pre' = k
    /\ UNCHANGED <<orig, fromSave, cc, ccpre>>
    /\ UNCHANGED resolverVars
    /\ UNCHANGED dispatchVars
    /\ UNCHANGED otherVars

\* the application replaces an override of a key it has read by nil
ClearConfig ==
    /\ pc = "found"
    /\ \E g \in Groups :
          /\ IsSome(k[GroupField(g)])
          /\ k' = [k EXCEPT ![GroupField(g)] = None]
    /\ pc' = "mem"
    /\ UNCHANGED <<err, pre, orig, fromSave, cc, ccpre>>
    /\ UNCHANGED resolverVars
    /\ UNCHANGED dispatchVars
    /\ UNCHANGED otherVars

NewClientConfig ==
    /\ pc = "init"
    /\ \E l \in ListOptions, o \in ListOptions :
          cc' = [TableClientConfig EXCEPT !.PrometheusLabels = l, !.AllowedOrigins = o]
    /\ pc' = "ccmem"
    /\ UNCHANGED <<k, err, pre, orig, fromSave, ccpre>>
    /\ UNCHANGED resolverVars
    /\ UNCHANGED dispatchVars
    /\ UNCHANGED otherVars

ScanClientConfig ==
    /\ pc = "init"
    /\ \E l \in StoredTexts, o \in StoredTexts :
          cc' = [TableClientConfig EXCEPT !.PrometheusLabelsJSON = l, !.AllowedOriginsJSON = o]
    /\ pc' = "ccscanned"
    /\ UNCHANGED <<k, err, pre, orig, fromSave, ccpre>>
    /\ UNCHANGED resolverVars
    /\ UNCHANGED dispatchVars
    /\ UNCHANGED otherVars

TableClientConfigBeforeSave ==
    /\ pc \in {"ccmem", "ccfound"}
    /\ cc' = ClientConfigBeforeSave(cc)
    /\ ccpre' = cc
    /\ err' = FALSE
    /\ pc' = "ccsaved"
    /\ UNCHANGED <<k, pre, orig, fromSave>>
    /\ UNCHANGED resolverVars
    /\ UNCHANGED dispatchVars
    /\ UNCHANGED otherVars

TableClientConfigAfterFind ==
    /\ pc \in {"ccscanned", "ccsaved"}
    /\ LET r == ClientConfigAfterFind(cc)
       IN  /\ cc' = r.cc
           /\ err' = r.err
           /\ pc' = IF r.err THEN "ccfailed" ELSE "ccfound"
    /\ ccpre' = cc
    /\ UNCHANGED <<k, pre, orig, fromSave>>
    /\ UNCHANGED resolverVars
    /\ UNCHANGED dispatchVars
    /\ UNCHANGED otherVars

(***************************************************************************)
(* The Apertus provider's resolver.                                        *)
(***************************************************************************)
\* "https://api.openai.com"
OpenAIBaseURL == <<"o">>

\* strings.TrimRight(s, "/")
RECURSIVE TrimRight(_)
TrimRight(s) ==
    IF Len(s) > 0 /\ s[Len(s)] = "/" THEN TrimRight(SubSeq(s, 1, Len(s) - 1)) ELSE s

\* the provider NewApertusProvider builds from a configured base URL
NewApertusProvider(configured) ==
    [networkConfig |->
        [BaseURL |-> TrimRight(IF configured = EmptyString THEN OpenAIBaseURL ELSE configured)]]

\* getBaseURL without the trimming
getBaseURLUntrimmed(prov, key) ==
    IF IsSome(key.ApertusKeyConfig) /\ Get(key.ApertusKeyConfig).Endpoint # EmptyString
    THEN Get(key.ApertusKeyConfig).Endpoint
    ELSE prov.networkConfig.BaseURL

getBaseURL(prov, key) ==
    IF IsSome(key.ApertusKeyConfig) /\ Get(key.ApertusKeyConfig).Endpoint # EmptyString
    THEN TrimRight(Get(key.ApertusKeyConfig).Endpoint)
    ELSE prov.networkConfig.BaseURL

\* schemas.RequestType
DirectRequestTypes ==
    {"text_completion", "text_completion_stream", "chat_completion", "chat_completion_stream",
     "responses", "responses_stream", "embedding"}
DelegatedRequestTypes == {"speech", "speech_stream", "transcription", "transcription_stream"}
RequestTypes == DirectRequestTypes \cup DelegatedRequestTypes \cup {"list_models"}

\* a URL path is a sequence of characters too; the text after a slash is
\* kept as one element
OverridePath == <<"/", "override">>

\* config.CustomProviderConfig: nil, a custom provider without path
\* overrides, a custom provider that overrides the path of every request type
CustomProviderConfigs ==
    {None,
     Some([CustomProviderKey |-> "custom", RequestPathOverrides |-> [t \in {} |-> OverridePath]]),
     Some([CustomProviderKey |-> "custom", RequestPathOverrides |-> [t \in RequestTypes |-> OverridePath]])}

\* the keys handed to the provider
SchemaKeys == {[ApertusKeyConfig |-> c] : c \in {None} \cup {Some(x) : x \in ApertusKeyConfigs}}

ConstructProvider ==
    /\ ~IsSome(provider)
    /\ \E configured \in URLs :
          /\ provider' = Some(NewApertusProvider(configured))
          /\ config' = Some(configured)
    /\ \E custom \in CustomProviderConfigs : customProviderConfig' = custom
    /\ UNCHANGED <<rkey, url, rmodel, mname>>
    /\ UNCHANGED codecVars
    /\ UNCHANGED callVars
    /\ UNCHANGED otherVars

\* the resolver reads the provider and the key and writes neither, so the
\* behaviours follow one call each
CallGetBaseURL ==
    /\ IsSome(provider) /\ ~IsSome(rkey)
    /\ \E key \in SchemaKeys :
          /\ rkey' = Some(key)
          /\ url' = Some(getBaseURL(Get(provider), key))
    /\ UNCHANGED <<provider, config, rmodel, mname>>
    /\ UNCHANGED codecVars
    /\ UNCHANGED dispatchVars
    /\ UNCHANGED otherVars

\* the model names a request may carry
RequestedModels == Names \cup {"A"}

\* getModelName that looks the name up without regard to case
getModelNameFolded(key, userModel) ==
    IF IsSome(key.ApertusKeyConfig) /\ IsSome(Get(key.ApertusKeyConfig).ModelNameMappings)
    THEN LET mappings == Get(Get(key.ApertusKeyConfig).ModelNameMappings)
             folded == IF userModel = "A" THEN "a" ELSE userModel
         IN  IF folded \in DOMAIN mappings THEN mappings[folded] ELSE userModel
    ELSE userModel

getModelName(key, userModel) ==
    IF IsSome(key.ApertusKeyConfig) /\ IsSome(Get(key.ApertusKeyConfig).ModelNameMappings)
    THEN LET mappings == Get(Get(key.ApertusKeyConfig).ModelNameMappings)
         IN  IF userModel \in DOMAIN mappings THEN mappings[userModel] ELSE userModel
    ELSE userModel

CallGetModelName ==
    /\ IsSome(provider) /\ ~IsSome(rkey)
    /\ \E key \in SchemaKeys, userModel \in RequestedModels :
          /\ rkey' = Some(key)
          /\ rmodel' = Some(userModel)
          /\ mname' = Some(getModelName(key, userModel))
    /\ UNCHANGED <<provider, config, url>>
    /\ UNCHANGED codecVars
    /\ UNCHANGED dispatchVars
    /\ UNCHANGED otherVars

NextResolver ==
    \/ ConstructProvider
    \/ CallGetBaseURL
    \/ CallGetModelName

SpecResolver == Init /\ [][NextResolver]_vars

(***************************************************************************)
(* The Apertus provider's dispatch operations.                             *)
(***************************************************************************)
\* schemas.Apertus and schemas.OpenAI
Apertus == "apertus"
OpenAI == "openai"

\* providerUtils.GetProviderName: the custom provider's key if there is one
GetProviderName(defaultProvider, custom) ==
    IF IsSome(custom) /\ Get(custom).CustomProviderKey # ""
    THEN Get(custom).CustomProviderKey
    ELSE defaultProvider

GetProviderKey(custom) == GetProviderName(Apertus, custom)

\* providerUtils.GetRequestPath: the path the custom provider configuration
\* gives the request type, or else the default path
GetRequestPath(defaultPath, custom, requestType) ==
    IF IsSome(custom) /\ requestType \in DOMAIN Get(custom).RequestPathOverrides
    THEN Get(custom).RequestPathOverrides[requestType]
    ELSE defaultPath

\* buildRequestURL that leaves the key's endpoint aside
buildRequestURLOfDefault(prov, custom, key, defaultPath, requestType) ==
    prov.networkConfig.BaseURL \o GetRequestPath(defaultPath, custom, requestType)

buildRequestURL(prov, custom, key, defaultPath, requestType) ==
    LET baseURL == getBaseURL(prov, key)
    IN  baseURL \o GetRequestPath(defaultPath, custom, requestType)

\* providerUtils.CheckOperationAllowed returns nil or an error
GateError == [Code |-> "unsupported_operation"]
GateOutcomes == {None, Some(GateError)}

\* what a shared handler returns: a response or an error, either carrying the
\* provider name the handler was given
HandlerResults(providerName) ==
    {[response |-> Some([Provider |-> providerName]), error |-> None],
     [response |-> None, error |-> Some([Code |-> "upstream", Provider |-> providerName])]}

\* what every operation does when the gate rejects: it returns the gate's
\* error and no result, having done nothing else (the first definition
\* resolves the base URL and builds the transient provider beforehand)
RejectedAfterResolving(gate) ==
    /\ steps' = <<"getBaseURL", "NewOpenAIProvider", "CheckOperationAllowed">>
    /\ sent' = None /\ stream' = << >>
    /\ temp' = Some([networkConfig |-> [BaseURL |-> OpenAIBaseURL], customProviderConfig |-> None])
    /\ ret' = [response |-> None, error |-> gate]
    /\ produced' = NoResult

Rejected(gate) ==
    /\ steps' = <<"CheckOperationAllowed">>
    /\ sent' = None /\ temp' = None /\ stream' = << >>
    /\ ret' = [response |-> None, error |-> gate]
    /\ produced' = NoResult

\* the streams a streaming operation of a provider may produce: chunks, then
\* possibly an error, every event under the provider's name
StreamsOf(providerName) ==
    {[i \in 1..n |-> [Kind |-> IF i = n /\ failed THEN "error" ELSE "chunk",
                      Provider |-> providerName]] :
        n \in 0..MaxEvents, failed \in BOOLEAN}

\* what a directly dispatching operation does once the gate has allowed it:
\* it resolves the URL and calls the handler, once (the first definition
\* calls the handler a second time)
DirectStepsRetried(handler) == <<"CheckOperationAllowed", "getBaseURL", handler, handler>>

DirectSteps(handler) == <<"CheckOperationAllowed", "getBaseURL", handler>>

\* the operations that hand the request to a shared handler themselves:
\* gate, then the handler with the URL buildRequestURL gives.  No operation
\* writes a field of the provider, so a call sees the provider as the
\* constructor left it and the behaviours follow one call each.
Dispatch(op, handler, defaultPath, requestType) ==
    /\ IsSome(provider) /\ ~IsSome(req)
    /\ \E key \in SchemaKeys, model \in RequestedModels, gate \in GateOutcomes :
          /\ req' = Some([op |-> op, key |-> key, model |-> model, gate |-> gate])
          /\ IF IsSome(gate)
             THEN Rejected(gate)
             ELSE /\ steps' = DirectSteps(handler)
                  /\ temp' = None /\ stream' = << >>
                  /\ sent' = Some([handler |-> handler,
                                   url |-> buildRequestURL(Get(provider), customProviderConfig,
                                                           key, defaultPath, requestType),
                                   model |-> model,
                                   providerName |-> GetProviderKey(customProviderConfig)])
                  /\ \E result \in HandlerResults(GetProviderKey(customProviderConfig)) :
                        /\ produced' = result
                        /\ ret' = result
    /\ UNCHANGED <<customProviderConfig, codecVars, resolverVars, otherVars>>

TextCompletion ==
    /\ Dispatch("TextCompletion", "HandleOpenAITextCompletionRequest",
                <<"/", "v1/completions">>, "text_completion")

TextCompletionStream ==
    /\ Dispatch("TextCompletionStream", "HandleOpenAITextCompletionStreaming",
                <<"/", "v1/completions">>, "text_completion_stream")

ChatCompletion ==
    /\ Dispatch("ChatCompletion", "HandleOpenAIChatCompletionRequest",
                <<"/", "v1/chat/completions">>, "chat_completion")

ChatCompletionStream ==
    /\ Dispatch("ChatCompletionStream", "HandleOpenAIChatCompletionStreaming",
                <<"/", "v1/chat/completions">>, "chat_completion_stream")

Responses ==
    /\ Dispatch("Responses", "HandleOpenAIResponsesRequest",
                <<"/", "v1/responses">>, "responses")

ResponsesStream ==
    /\ Dispatch("ResponsesStream", "HandleOpenAIResponsesStreaming",
                <<"/", "v1/responses">>, "responses_stream")

Embedding ==
    /\ Dispatch("Embedding", "HandleOpenAIEmbeddingRequest",
                <<"/", "v1/embeddings">>, "embedding")

\* the ProviderConfig the delegating operations build: the base URL of the
\* key and no CustomProviderConfig
TempConfig(prov, key) ==
    [NetworkConfig |-> [BaseURL |-> getBaseURL(prov, key)], CustomProviderConfig |-> None]

\* openai.NewOpenAIProvider
NewOpenAIProvider(tempConfig) ==
    [networkConfig |->
        [BaseURL |-> TrimRight(IF tempConfig.NetworkConfig.BaseURL = EmptyString
                               THEN OpenAIBaseURL ELSE tempConfig.NetworkConfig.BaseURL)],
     customProviderConfig |-> tempConfig.CustomProviderConfig]

\* the URL an operation of the OpenAI provider sends its request to
OpenAIRequestURL(tempProvider, defaultPath, requestType) ==
    tempProvider.networkConfig.BaseURL
        \o GetRequestPath(defaultPath, tempProvider.customProviderConfig, requestType)

\* what an operation of the OpenAI provider returns: what a handler returns
\* under the provider's own name, or nothing at all
DelegateResults(tempProvider) ==
    HandlerResults(GetProviderName(OpenAI, tempProvider.customProviderConfig)) \cup {NoResult}

\* what Speech and Transcription return for what the transient provider
\* returned: the provider's name is put into the error, or else into the
\* response if there is one (the first definition leaves the name alone)
UnpatchedResult(result, providerName) ==
    IF IsSome(result.error) THEN [response |-> None, error |-> result.error] ELSE result

PatchedResult(result, providerName) ==
    IF IsSome(result.error)
    THEN [response |-> None,
          error |-> Some([Get(result.error) EXCEPT !.Provider = providerName])]
    ELSE IF IsSome(result.response)
         THEN [response |-> Some([Get(result.response) EXCEPT !.Provider = providerName]),
               error |-> None]
         ELSE result

\* gate, transient provider, its operation; what the caller gets is decided
\* by the operation (blocking or streaming)
Delegate(op, method, defaultPath, requestType, streaming) ==
    /\ IsSome(provider) /\ ~IsSome(req)
    /\ \E key \in SchemaKeys, model \in RequestedModels, gate \in GateOutcomes :
          /\ req' = Some([op |-> op, key |-> key, model |-> model, gate |-> gate])
          /\ IF IsSome(gate)
             THEN Rejected(gate)
             ELSE LET tempProvider == NewOpenAIProvider(TempConfig(Get(provider), key))
                      delegateName == GetProviderName(OpenAI, tempProvider.customProviderConfig)
                  IN  /\ steps' = <<"CheckOperationAllowed", "getBaseURL", "NewOpenAIProvider", method>>
                      /\ temp' = Some(tempProvider)
                      /\ sent' = Some([handler |-> method,
                                       url |-> OpenAIRequestURL(tempProvider, defaultPath, requestType),
                                       model |-> model,
                                       providerName |-> delegateName])
                      /\ IF streaming
                         THEN \/ /\ ret' = [response |-> None,
                                            error |-> Some([Code |-> "upstream", Provider |-> delegateName])]
                                 /\ stream' = << >>
                                 /\ produced' = ret'
                              \/ /\ ret' = [response |-> Some([Stream |-> TRUE]), error |-> None]
                                 /\ \E events \in StreamsOf(delegateName) : stream' = events
                                 /\ produced' = ret'
                         ELSE /\ \E result \in DelegateResults(tempProvider) :
                                    /\ produced' = result
                                    /\ ret' = PatchedResult(result, GetProviderKey(customProviderConfig))
                              /\ stream' = << >>
    /\ UNCHANGED <<customProviderConfig, codecVars, resolverVars, otherVars>>

Speech ==
    /\ Delegate("Speech", "OpenAIProvider.Speech", <<"/", "v1/audio/speech">>, "speech", FALSE)

SpeechStream ==
    /\ Delegate("SpeechStream", "OpenAIProvider.SpeechStream",
                <<"/", "v1/audio/speech">>, "speech_stream", TRUE)

Transcription ==
    /\ Delegate("Transcription", "OpenAIProvider.Transcription",
                <<"/", "v1/audio/transcriptions">>, "transcription", FALSE)

TranscriptionStream ==
    /\ Delegate("TranscriptionStream", "OpenAIProvider.TranscriptionStream",
                <<"/", "v1/audio/transcriptions">>, "transcription_stream", TRUE)

\* the keys handed to ListModels: allowed-model lists of at most MaxModels
\* names in all, each key with or without an override
ListedOverrides ==
    {None, Some([Endpoint |-> <<"h">>, ModelNameMappings |-> Some([n \in {"a"} |-> "b"])])}

RECURSIVE KeyLists(_, _)
KeyLists(n, budget) ==
    IF n = 0 THEN {<< >>}
    ELSE {<< >>} \cup
         UNION {{<<[Models |-> l, ApertusKeyConfig |-> c]>> \o rest :
                    c \in ListedOverrides, rest \in KeyLists(n - 1, budget - Len(l))} :
                l \in StringsUpTo(Names, budget)}

\* the set the two loops over keys and models build (the first definition
\* stops after the first key)
ModelSetOfFirstKey(keys) ==
    IF keys = << >> THEN {} ELSE {keys[1].Models[j] : j \in 1..Len(keys[1].Models)}

ModelSet(keys) == {keys[i].Models[j] : <<i, j>> \in {p \in (1..Len(keys)) \X (1..MaxModels) : p[2] <= Len(keys[p[1]].Models)}}

\* the response ListModels builds from the model set, taken in the order the
\* map iteration gave (the first definition lists the names the keys'
\* mappings give the models)
ListModelsMapped(keys, order, providerName) ==
    [Data |-> [i \in 1..Len(order) |->
                  [ID |-> <<providerName, "/",
                            getModelName(CHOOSE key \in {keys[n] : n \in 1..Len(keys)} :
                                             \E j \in 1..Len(key.Models) : key.Models[j] = order[i],
                                         order[i])>>,
                   OwnedBy |-> "system"]],
     ExtraFields |-> [Provider |-> providerName, RequestType |-> "list_models", Latency |-> 0]]

ListModelsResponse(keys, order, providerName) ==
    [Data |-> [i \in 1..Len(order) |->
                  [ID |-> <<providerName, "/", order[i]>>, OwnedBy |-> "system"]],
     ExtraFields |-> [Provider |-> providerName, RequestType |-> "list_models", Latency |-> 0]]

ListModels ==
    /\ IsSome(provider) /\ ~IsSome(req)
    /\ \E keys \in KeyLists(MaxKeys, MaxModels), gate \in GateOutcomes :
          /\ req' = Some([op |-> "ListModels", keys |-> keys, gate |-> gate])
          /\ IF IsSome(gate)
             THEN Rejected(gate)
             ELSE /\ \E order \in Perms(ModelSet(keys)) :
                        ret' = [response |-> Some(ListModelsResponse(keys, order,
                                                     GetProviderKey(customProviderConfig))),
                                error |-> None]
                  /\ steps' = <<"CheckOperationAllowed">>
                  /\ sent' = None /\ temp' = None /\ stream' = << >>
                  /\ produced' = NoResult
    /\ UNCHANGED <<customProviderConfig, codecVars, resolverVars, otherVars>>

NextDispatch ==
    \/ ConstructProvider
    \/ TextCompletion
    \/ TextCompletionStream
    \/ ChatCompletion
    \/ ChatCompletionStream
    \/ Responses
    \/ ResponsesStream
    \/ Embedding
    \/ Speech
    \/ SpeechStream
    \/ Transcription
    \/ TranscriptionStream
    \/ ListModels

SpecDispatch == Init /\ [][NextDispatch]_vars

(***************************************************************************)
(* A caller that dispatches the request of a ChatCompletion call once      *)
(* more, with the same key (a retry).  The operation assigns no field of   *)
(* the request, so the second call receives the request as it was given.   *)
(***************************************************************************)
ChatCompletionAgain ==
    /\ IsSome(req) /\ Get(req).op = "ChatCompletion" /\ ~IsSome(Get(req).gate)
    /\ ~IsSome(first)
    /\ first' = sent
    /\ steps' = steps \o DirectSteps("HandleOpenAIChatCompletionRequest")
    /\ sent' = Some([handler |-> "HandleOpenAIChatCompletionRequest",
                     url |-> buildRequestURL(Get(provider), customProviderConfig, Get(req).key,
                                             <<"/", "v1/chat/completions">>, "chat_completion"),
                     model |-> Get(req).model,
                     providerName |-> GetProviderKey(customProviderConfig)])
    /\ \E result \in HandlerResults(GetProviderKey(customProviderConfig)) :
          /\ produced' = result
          /\ ret' = result
    /\ UNCHANGED <<req, temp, stream>>
    /\ UNCHANGED <<customProviderConfig, codecVars, resolverVars, threads, providerTableVars>>

NextRedispatch ==
    \/ ConstructProvider
    \/ ChatCompletion
    \/ ChatCompletionAgain

SpecRedispatch == Init /\ [][NextRedispatch]_vars

(***************************************************************************)
(* Concurrent callers of one provider.  A call is taken in the steps in    *)
(* which it reads what the callers share (the provider) and writes its own *)
(* locals: resolve the base URL, build the transient provider if the       *)
(* operation delegates, build the URL and invoke the handler.              *)
(***************************************************************************)
\* one directly dispatching and one delegating operation
ConcurrentOps == {"ChatCompletion", "Speech"}

\* the keys of concurrent calls: no override, or an endpoint
ConcurrentKeys ==
    {[ApertusKeyConfig |-> c] :
        c \in {None} \cup {Some([Endpoint |-> e, ModelNameMappings |-> None]) : e \in URLs}}

\* the gate allows the operation and the call begins
ThreadCall(t) ==
    /\ IsSome(provider)
    /\ threads[t].pc = "idle"
    /\ \E op \in ConcurrentOps, key \in ConcurrentKeys :
          threads' = [threads EXCEPT ![t] = [IdleThread EXCEPT !.pc = "resolve", !.op = op,
                                                                !.key = key, !.given = key]]
    /\ UNCHANGED <<codecVars, resolverVars, dispatchVars, providerTableVars, first>>

\* getBaseURL that keeps the URL it resolved in the provider
ThreadResolveCaching(t) ==
    /\ threads[t].pc = "resolve"
    /\ threads' = [threads EXCEPT
                      ![t].baseURL = Some(getBaseURL(Get(provider), threads[t].key)),
                      ![t].pc = IF threads[t].op = "Speech" THEN "construct" ELSE "send"]
    /\ provider' = Some([networkConfig |-> [BaseURL |-> getBaseURL(Get(provider), threads[t].key)]])
    /\ UNCHANGED <<config, rkey, url, rmodel, mname>>
    /\ UNCHANGED <<codecVars, dispatchVars, providerTableVars, first>>

\* provider.getBaseURL(key): reads the provider and the key, writes neither
ThreadResolve(t) ==
    /\ threads[t].pc = "resolve"
    /\ threads' = [threads EXCEPT
                      ![t].baseURL = Some(getBaseURL(Get(provider), threads[t].key)),
                      ![t].pc = IF threads[t].op = "Speech" THEN "construct" ELSE "send"]
    /\ UNCHANGED <<codecVars, resolverVars, dispatchVars, providerTableVars, first>>

\* tempConfig and openai.NewOpenAIProvider(tempConfig): the constructor
\* writes the ProviderConfig it is given, which is the call's own
ThreadConstruct(t) ==
    /\ threads[t].pc = "construct"
    /\ threads' = [threads EXCEPT
                      ![t].temp = Some(NewOpenAIProvider(
                                          [NetworkConfig |-> [BaseURL |-> Get(threads[t].baseURL)],
                                           CustomProviderConfig |-> None])),
                      ![t].pc = "send"]
    /\ UNCHANGED <<codecVars, resolverVars, dispatchVars, providerTableVars, first>>

\* the URL the request is sent to
ThreadSend(t) ==
    /\ threads[t].pc = "send"
    /\ threads' = [threads EXCEPT
                      ![t].url =
                          IF threads[t].op = "Speech"
                          THEN Some(OpenAIRequestURL(Get(threads[t].temp),
                                                     <<"/", "v1/audio/speech">>, "speech"))
                          ELSE Some(Get(threads[t].baseURL)
                                       \o GetRequestPath(<<"/", "v1/chat/completions">>,
                                                         customProviderConfig, "chat_completion")),
                      ![t].pc = "done"]
    /\ UNCHANGED <<codecVars, resolverVars, dispatchVars, providerTableVars, first>>

NextConcurrent ==
    \/ ConstructProvider
    \/ \E t \in Threads : ThreadCall(t)
    \/ \E t \in Threads : ThreadResolve(t)
    \/ \E t \in Threads : ThreadConstruct(t)
    \/ \E t \in Threads : ThreadSend(t)

SpecConcurrent == Init /\ [][NextConcurrent]_vars

(***************************************************************************)
(* TableProvider: the provider row and its four optional configurations.   *)
(* A configuration is taken by the value of one string field of it; the    *)
(* column holds the JSON object text of that field.                        *)
(***************************************************************************)
ProviderConfigFields ==
    <<"NetworkConfig", "ConcurrencyAndBufferSize", "ProxyConfig", "CustomProviderConfig">>

ProviderColumn(f) ==
    CASE f = "NetworkConfig"            -> "NetworkConfigJSON"
      [] f = "ConcurrencyAndBufferSize" -> "ConcurrencyBufferJSON"
      [] f = "ProxyConfig"              -> "ProxyConfigJSON"
      [] f = "CustomProviderConfig"     -> "CustomProviderConfigJSON"

\* the JSON name of the field a configuration is taken by
ProviderConfigTag(f) ==
    CASE f = "NetworkConfig"            -> "base_url"
      [] f = "ConcurrencyAndBufferSize" -> "concurrency"
      [] f = "ProxyConfig"              -> "type"
      [] f = "CustomProviderConfig"     -> "base_provider_type"

\* the values a configuration can have in memory; a custom provider
\* configuration can lack its base provider type
ProviderConfigValues(f) == IF f = "CustomProviderConfig" THEN {"", "openai"} ELSE {"x"}

\* json.Marshal of a configuration
MarshalConfig(f, c) == <<"{", ProviderConfigTag(f), ":", c, "}">>

\* json.Unmarshal(text, &config) into a zero configuration: a field of
\* another name is skipped, anything that is not an object is an error
UnmarshalConfig(f, t) ==
    IF t = <<"{", "}">> THEN [val |-> "", err |-> FALSE]
    ELSE IF Len(t) = 5 /\ t[1] = "{" /\ t[3] = ":" /\ t[5] = "}"
         THEN [val |-> IF t[2] = ProviderConfigTag(f) THEN t[4] ELSE "", err |-> FALSE]
         ELSE [val |-> "", err |-> TRUE]

\* one block of BeforeSave: the column is written when the configuration is
\* present and left as it is otherwise
SaveProviderConfig(p, f) ==
    IF IsSome(p[f]) THEN [p EXCEPT ![ProviderColumn(f)] = MarshalConfig(f, Get(p[f]))] ELSE p

\* TableProvider.BeforeSave: the struct afterwards and whether it failed
ProviderBeforeSave(p) ==
    LET p3 == SaveProviderConfig(SaveProviderConfig(SaveProviderConfig(p,
                  "NetworkConfig"), "ConcurrencyAndBufferSize"), "ProxyConfig")
    IN  IF IsSome(p3.CustomProviderConfig) /\ Get(p3.CustomProviderConfig) = ""
        THEN [p |-> p3, err |-> TRUE]
        ELSE [p |-> SaveProviderConfig(p3, "CustomProviderConfig"), err |-> FALSE]

\* one block of AfterFind: a non-empty column is parsed into a new
\* configuration; the first error ends the hook
FindProviderConfig(r, f) ==
    IF r.err \/ r.p[ProviderColumn(f)] = EmptyString THEN r
    ELSE LET u == UnmarshalConfig(f, r.p[ProviderColumn(f)])
         IN  IF u.err THEN [r EXCEPT !.err = TRUE]
             ELSE [r EXCEPT !.p[f] = Some(u.val)]

\* TableProvider.AfterFind: the struct afterwards and whether it failed
ProviderAfterFind(p) ==
    FindProviderConfig(FindProviderConfig(FindProviderConfig(FindProviderConfig(
        [p |-> p, err |-> FALSE],
        "NetworkConfig"), "ConcurrencyAndBufferSize"), "ProxyConfig"), "CustomProviderConfig")

\* the texts a column of a stored row can hold
StoredProviderTexts(f) ==
    {EmptyString, <<"{">>} \cup {MarshalConfig(f, c) : c \in ProviderConfigValues(f)}

\* the configurations a caller can put in the struct
ProviderConfigChoices ==
    {c \in [{ProviderConfigFields[i] : i \in 1..Len(ProviderConfigFields)}
               -> {None} \cup {Some(v) : v \in {"", "openai", "x"}}] :
        \A i \in 1..Len(ProviderConfigFields) :
           LET f == ProviderConfigFields[i]
           IN  IsSome(c[f]) => Get(c[f]) \in ProviderConfigValues(f)}

WithProviderConfigs(p, c) ==
    [p EXCEPT !.NetworkConfig = c.NetworkConfig,
              !.ConcurrencyAndBufferSize = c.ConcurrencyAndBufferSize,
              !.ProxyConfig = c.ProxyConfig,
              !.CustomProviderConfig = c.CustomProviderConfig]

providerTableFrame == <<codecVars, resolverVars, dispatchVars, threads, first>>

\* a caller builds a provider struct
NewTableProvider ==
    /\ tppc = "init"
    /\ \E c \in ProviderConfigChoices : tp' = WithProviderConfigs(TableProvider, c)
    /\ tppc' = "new"
    /\ UNCHANGED tplast
    /\ UNCHANGED providerTableFrame

\* the store scans a row into a new struct
ScanTableProvider ==
    /\ tppc = "init"
    /\ \E n \in StoredProviderTexts("NetworkConfig"),
          b \in StoredProviderTexts("ConcurrencyAndBufferSize"),
          x \in StoredProviderTexts("ProxyConfig"),
          c \in StoredProviderTexts("CustomProviderConfig") :
          tp' = [TableProvider EXCEPT !.NetworkConfigJSON = n, !.ConcurrencyBufferJSON = b,
                                      !.ProxyConfigJSON = x, !.CustomProviderConfigJSON = c]
    /\ tppc' = "scanned"
    /\ UNCHANGED tplast
    /\ UNCHANGED providerTableFrame

\* a caller replaces the configurations of a struct it holds
SetProviderConfigs ==
    /\ tppc \in {"saved", "found", "restored"}
    /\ \E c \in ProviderConfigChoices : tp' = WithProviderConfigs(tp, c)
    /\ tppc' = "new"
    /\ UNCHANGED tplast
    /\ UNCHANGED providerTableFrame

\* the store saves the struct: BeforeSave, then the columns are written
TableProviderBeforeSave ==
    /\ tppc = "new"
    /\ tplast' = tp
    /\ tp' = ProviderBeforeSave(tp).p
    /\ tppc' = IF ProviderBeforeSave(tp).err THEN "save_failed" ELSE "saved"
    /\ UNCHANGED providerTableFrame

\* the store reads the saved row into a new struct
ReloadTableProvider ==
    /\ tppc = "saved"
    /\ tp' = [TableProvider EXCEPT !.NetworkConfigJSON = tp.NetworkConfigJSON,
                                   !.ConcurrencyBufferJSON = tp.ConcurrencyBufferJSON,
                                   !.ProxyConfigJSON = tp.ProxyConfigJSON,
                                   !.CustomProviderConfigJSON = tp.CustomProviderConfigJSON]
    /\ tppc' = "reloaded"
    /\ UNCHANGED tplast
    /\ UNCHANGED providerTableFrame

\* the store has filled the columns: AfterFind
TableProviderAfterFind ==
    /\ tppc \in {"scanned", "reloaded"}
    /\ tp' = ProviderAfterFind(tp).p
    /\ tppc' = IF ProviderAfterFind(tp).err THEN "find_failed"
               ELSE IF tppc = "reloaded" THEN "restored" ELSE "found"
    /\ UNCHANGED tplast
    /\ UNCHANGED providerTableFrame

NextProviderTable ==
    \/ NewTableProvider
    \/ ScanTableProvider
    \/ SetProviderConfigs
    \/ TableProviderBeforeSave
    \/ ReloadTableProvider
    \/ TableProviderAfterFind

SpecProviderTable == Init /\ [][NextProviderTable]_vars

Next ==
    \/ NewKey
    \/ ScanRow
    \/ TableKeyBeforeSave
    \/ Reload
    \/ Refetch
    \/ TableKeyAfterFind
    \/ ClearConfig
    \/ NewClientConfig
    \/ ScanClientConfig
    \/ TableClientConfigBeforeSave
    \/ TableClientConfigAfterFind

Spec == Init /\ [][Next]_vars

(***************************************************************************)
(* Properties of the codec and the resolver.                               *)
(***************************************************************************)
\* no virtual field of the struct is set
Fresh(key) == \A f \in VirtualFields : ~IsSome(key[f])

\* AfterFind has just decoded, into a new struct, the columns BeforeSave
\* produced from orig
RoundTripDone == pc = "found" /\ fromSave /\ Fresh(pre)

\* empty/absent normalisation: an empty optional string or an empty map is
\* an absent one, and a value whose every field is empty is an absent value
NormPointer(p) == IF IsSome(p) /\ Get(p) # EmptyString THEN p ELSE None
NormMap(m) == IF IsSome(m) /\ DOMAIN Get(m) # {} THEN m ELSE None
NormGroup(g, o) ==
    IF ~IsSome(o) THEN None
    ELSE LET c == Get(o)
             n == CASE g = "Azure" ->
                         [Endpoint |-> c.Endpoint,
                          APIVersion |-> NormPointer(c.APIVersion),
                          Deployments |-> NormMap(c.Deployments)]
                    [] g = "Vertex" -> c
                    [] g = "Bedrock" ->
                         [AccessKey |-> c.AccessKey,
                          SecretKey |-> c.SecretKey,
                          SessionToken |-> NormPointer(c.SessionToken),
                          Region |-> NormPointer(c.Region),
                          ARN |-> NormPointer(c.ARN),
                          Deployments |-> NormMap(c.Deployments)]
                    [] g = "Apertus" ->
                         [Endpoint |-> c.Endpoint,
                          ModelNameMappings |-> NormMap(c.ModelNameMappings)]
         IN  IF Populated(n) = 0 THEN None ELSE Some(n)

SameOverride(g, x, y) == NormGroup(g, x) = NormGroup(g, y)

\* C1: decoding the columns BeforeSave produced from an Apertus override
\* value yields a value equal to it, endpoint and model-name mapping, up to
\* the empty/absent normalisation.
C1_ApertusRoundTrip ==
    RoundTripDone => SameOverride("Apertus", k.ApertusKeyConfig, orig.ApertusKeyConfig)

\* C2: a present override value whose every field is empty/absent is saved
\* as all-null columns of its group, and all-null columns of a group are
\* read as an absent override value.
C2_EmptyIsAbsent ==
    /\ pc = "saved" =>
          \A g \in Groups :
             (IsSome(pre[GroupField(g)]) /\ NormGroup(g, pre[GroupField(g)]) = None)
                => \A col \in GroupColumns(g) : ~IsSome(k[col])
    /\ (pc = "found" /\ Fresh(pre)) =>
          \A g \in Groups :
             (\A col \in GroupColumns(g) : ~IsSome(pre[col])) => ~IsSome(k[GroupField(g)])

\* C3: for Azure, Vertex and Bedrock, decoding the columns BeforeSave
\* produced from an override value yields a value equal to it up to the
\* empty/absent normalisation, also when its first field is empty.
C3_SiblingRoundTrip ==
    RoundTripDone =>
       \A g \in {"Azure", "Vertex", "Bedrock"} :
          SameOverride(g, k[GroupField(g)], orig[GroupField(g)])

\* C4: a successful AfterFind attaches an override value of a group exactly
\* when some column of that group is non-null.
C4_PresentIffColumn ==
    (pc = "found" /\ Fresh(pre)) =>
       \A g \in Groups :
          IsSome(k[GroupField(g)]) <=> (\E col \in GroupColumns(g) : IsSome(pre[col]))

\* a text that is no encoding of a list, of a map
MalformedList(t) == t # <<"null">> /\ ~IsListText(t)
MalformedMap(t) == t # <<"null">> /\ ~IsMapText(t)

\* the row AfterFind received holds a structured column with a malformed text
MalformedRow(row) ==
    \/ row.ModelsJSON # EmptyString /\ MalformedList(row.ModelsJSON)
    \/ \E col \in JSONColumns : IsSome(row[col]) /\ MalformedMap(Get(row[col]))

\* C5: AfterFind returns an error for every row with a structured column
\* that is non-null and malformed, whatever the other columns hold.
C5_MalformedIsError ==
    (pc \in {"found", "failed"} /\ MalformedRow(pre)) => err

\* C6: when AfterFind returns an error, the virtual fields of the key are
\* as they were before the call.
C6_NoPartialReconstruction ==
    pc = "failed" => \A f \in VirtualFields : k[f] = pre[f]

\* C7: after BeforeSave, every column of a group whose in-memory override
\* value was absent is null, whatever the columns held before.
C7_AbsentClearsColumns ==
    pc = "saved" =>
       \A g \in Groups :
          ~IsSome(pre[GroupField(g)]) => \A col \in GroupColumns(g) : ~IsSome(k[col])

\* C7 happens: BeforeSave ran on a key with an absent override value whose
\* group had a non-null column.
C7_Witness ==
    /\ pc = "saved"
    /\ \E g \in Groups :
          /\ ~IsSome(pre[GroupField(g)])
          /\ \E col \in GroupColumns(g) : IsSome(pre[col])
          /\ \A col \in GroupColumns(g) : ~IsSome(k[col])

\* C8: after BeforeSave, every override column is null or a non-empty text.
C8_NoEmptyColumns ==
    pc = "saved" =>
       \A col \in OverrideColumns : IsSome(k[col]) => Get(k[col]) # EmptyString

\* the text is the encoding of the list option l, "[]" standing for an
\* absent list
EncodesList(t, l) ==
    /\ t # EmptyString
    /\ IsListText(t)
    /\ UnmarshalList(t, None).val = Some(IF IsSome(l) THEN Get(l) ELSE << >>)
    /\ ~IsSome(l) => t = <<"[", "]">>

\* C9: after BeforeSave a list column is never empty: it holds "[]" when the
\* in-memory list is absent and the encoding of the list otherwise, for the
\* key's models and the client config's labels and origins.
C9_ListColumns ==
    /\ pc = "saved" => EncodesList(k.ModelsJSON, pre.Models)
    /\ pc = "ccsaved" =>
          /\ EncodesList(cc.PrometheusLabelsJSON, ccpre.PrometheusLabels)
          /\ EncodesList(cc.AllowedOriginsJSON, ccpre.AllowedOrigins)

\* C9 happens: a key with an absent list and a column that held another
\* text was saved.
C9_Witness ==
    /\ pc = "saved"
    /\ ~IsSome(pre.Models)
    /\ pre.ModelsJSON \notin {EmptyString, <<"[", "]">>}
    /\ k.ModelsJSON = <<"[", "]">>
\* r is s with all its trailing slashes removed
StrippedOf(r, s) ==
    /\ Len(r) <= Len(s)
    /\ \A i \in 1..Len(s) : IF i <= Len(r) THEN r[i] = s[i] ELSE s[i] = "/"
    /\ Len(r) > 0 => r[Len(r)] # "/"

\* C10: getBaseURL returns the provider default (the configured URL, or the
\* fallback when that is empty, without trailing slashes) for a key whose
\* override is absent or has an empty endpoint, and otherwise the override's
\* endpoint without its trailing slashes, whatever the provider default is.
C10_ResolverFallback ==
    IsSome(url) =>
       LET key == Get(rkey)
           configured == Get(config)
       IN  IF IsSome(key.ApertusKeyConfig) /\ Get(key.ApertusKeyConfig).Endpoint # EmptyString
           THEN StrippedOf(Get(url), Get(key.ApertusKeyConfig).Endpoint)
           ELSE StrippedOf(Get(url), IF configured = EmptyString THEN OpenAIBaseURL ELSE configured)

\* C10 happens: getBaseURL was called with an endpoint that ends in a slash
\* on a provider with another default.
C10_Witness ==
    /\ IsSome(url)
    /\ IsSome(Get(rkey).ApertusKeyConfig)
    /\ Get(Get(rkey).ApertusKeyConfig).Endpoint = <<"h", "/">>
    /\ Get(url) = <<"h">>
    /\ Get(config) = EmptyString

\* C11: whatever the provider was configured with and whatever the key's
\* endpoint is, getBaseURL after NewApertusProvider never returns the empty
\* string.
C11_NeverEmpty ==
    IsSome(url) => Get(url) # EmptyString

Called(ops) == IsSome(req) /\ Get(req).op \in ops

DirectOps ==
    {"TextCompletion", "TextCompletionStream", "ChatCompletion", "ChatCompletionStream",
     "Responses", "ResponsesStream", "Embedding"}
DelegatedOps == {"Speech", "SpeechStream", "Transcription", "TranscriptionStream"}

\* C13: whichever operation carries a model, the request handed to the
\* handler names the effective model: the name the key's mapping gives the
\* requested model, or the requested model if the mapping has none.
C13_EffectiveModelSent ==
    (Called(DirectOps \cup DelegatedOps) /\ IsSome(sent)) =>
       Get(sent).model = getModelName(Get(req).key, Get(req).model)

AllOps == DirectOps \cup DelegatedOps \cup {"ListModels"}

\* C14: every operation consults the gate before it does anything else, and
\* when the gate rejects it returns the gate's error and no result, without
\* having resolved a base URL, built a transient provider or called a handler.
C14_GateFirst ==
    Called(AllOps) =>
       /\ Len(steps) >= 1 /\ steps[1] = "CheckOperationAllowed"
       /\ IsSome(Get(req).gate) =>
             /\ ret = [response |-> None, error |-> Get(req).gate]
             /\ steps = <<"CheckOperationAllowed">>
             /\ ~IsSome(sent) /\ ~IsSome(temp) /\ stream = << >>

\* C14 happens: the gate rejected a SpeechStream call.
C14_Witness ==
    /\ Called({"SpeechStream"})
    /\ IsSome(Get(req).gate)
    /\ ret.error = Some(GateError)

\* the fixed suffix of each directly dispatched shape
FixedSuffix(op) ==
    CASE op \in {"TextCompletion", "TextCompletionStream"} -> <<"/", "v1/completions">>
      [] op \in {"ChatCompletion", "ChatCompletionStream"} -> <<"/", "v1/chat/completions">>
      [] op \in {"Responses", "ResponsesStream"} -> <<"/", "v1/responses">>
      [] op = "Embedding" -> <<"/", "v1/embeddings">>

NoPathOverride ==
    IsSome(customProviderConfig) => DOMAIN Get(customProviderConfig).RequestPathOverrides = {}

\* where the base URL of a key comes from: its endpoint, or else what the
\* provider was configured with, or else the fallback
BaseURLSource(key) ==
    IF IsSome(key.ApertusKeyConfig) /\ Get(key.ApertusKeyConfig).Endpoint # EmptyString
    THEN Get(key.ApertusKeyConfig).Endpoint
    ELSE IF Get(config) = EmptyString THEN OpenAIBaseURL ELSE Get(config)

\* C15: without a path override, the URL a directly dispatched operation
\* hands to its handler is the key's base URL (endpoint or provider default,
\* trailing slashes removed) followed by the fixed suffix of the shape, so no
\* slash precedes the suffix.
C15_TargetURL ==
    (Called(DirectOps) /\ IsSome(sent) /\ NoPathOverride) =>
       LET target == Get(sent).url
           base == SubSeq(target, 1, Len(target) - 2)
       IN  /\ Len(target) >= 2
           /\ SubSeq(target, Len(target) - 1, Len(target)) = FixedSuffix(Get(req).op)
           /\ StrippedOf(base, BaseURLSource(Get(req).key))
           /\ base = getBaseURL(Get(provider), Get(req).key)
           /\ Len(base) > 0 => base[Len(base)] # "/"

\* C15 happens: a chat completion went to an endpoint configured with a
\* trailing slash.
C15_Witness ==
    /\ Called({"ChatCompletion", "ChatCompletionStream"})
    /\ IsSome(sent) /\ NoPathOverride
    /\ IsSome(Get(req).key.ApertusKeyConfig)
    /\ Get(Get(req).key.ApertusKeyConfig).Endpoint = <<"h", "/">>
    /\ Get(sent).url = <<"h", "/", "v1/chat/completions">>

PathOverridden ==
    /\ IsSome(customProviderConfig)
    /\ DOMAIN Get(customProviderConfig).RequestPathOverrides = RequestTypes

\* C16: when the provider's custom configuration overrides the path of the
\* request type, the URL the request goes to ends in that path, for the
\* directly dispatched shapes and for speech and transcription alike.
C16_PathOverrideApplied ==
    (Called(DirectOps \cup DelegatedOps) /\ IsSome(sent) /\ PathOverridden) =>
       LET target == Get(sent).url
       IN  /\ Len(target) >= 2
           /\ SubSeq(target, Len(target) - 1, Len(target)) = OverridePath

\* a delegating operation got past the gate and called the transient provider
Delegated(ops) == Called(ops) /\ ~IsSome(Get(req).gate) /\ IsSome(temp)

\* the name callers know this provider by
OwnIdentity ==
    IF IsSome(customProviderConfig) THEN Get(customProviderConfig).CustomProviderKey ELSE Apertus

\* C17: whatever the transient provider returns to Speech or Transcription,
\* the response or error the caller gets names this provider, and never the
\* transient provider.
C17_BlockingIdentity ==
    Delegated({"Speech", "Transcription"}) =>
       /\ IsSome(ret.response) =>
             /\ Get(ret.response).Provider = OwnIdentity
             /\ Get(ret.response).Provider # Get(sent).providerName
       /\ IsSome(ret.error) =>
             /\ Get(ret.error).Provider = OwnIdentity
             /\ Get(ret.error).Provider # Get(sent).providerName

\* C17 happens: the transient provider failed and Transcription returned the
\* error under this provider's name.
C17_Witness ==
    /\ Delegated({"Transcription"})
    /\ Get(sent).providerName = OpenAI
    /\ ret.error = Some([Code |-> "upstream", Provider |-> Apertus])

\* C18: the error SpeechStream or TranscriptionStream returns, and every
\* event on the stream they return, names this provider and never the
\* transient provider.
C18_StreamingIdentity ==
    Delegated({"SpeechStream", "TranscriptionStream"}) =>
       /\ IsSome(ret.error) => Get(ret.error).Provider = OwnIdentity
       /\ \A i \in 1..Len(stream) : stream[i].Provider = OwnIdentity

Listed == Called({"ListModels"}) /\ ~IsSome(Get(req).gate)

\* the model names that occur in the allowed-model list of a key
NamesOf(keys) ==
    {n \in Names : \E i \in 1..Len(keys) : \E j \in 1..Len(keys[i].Models) : keys[i].Models[j] = n}

DescriptorID(n) == <<OwnIdentity, "/", n>>

\* C19: ListModels, when the gate allows it, returns one descriptor for each
\* model name that occurs in the allowed-model list of a key and no other
\* descriptor; the ID is the provider's identity, a slash and the name; the
\* reported latency is zero; no keys give no descriptors.
C19_ListModels ==
    Listed =>
       /\ IsSome(ret.response) /\ ~IsSome(ret.error)
       /\ LET data == Get(ret.response).Data
              keys == Get(req).keys
          IN  /\ \A n \in NamesOf(keys) :
                    Cardinality({i \in 1..Len(data) : data[i].ID = DescriptorID(n)}) = 1
              /\ \A i \in 1..Len(data) : \E n \in NamesOf(keys) : data[i].ID = DescriptorID(n)
              /\ Get(ret.response).ExtraFields.Latency = 0
              /\ keys = << >> => data = << >>

\* C19 happens: two keys allow the same model and ListModels lists it once.
C19_Witness ==
    /\ Listed
    /\ Len(Get(req).keys) = 2
    /\ Get(req).keys[1].Models = <<"a">>
    /\ Get(req).keys[2].Models = <<"a">>
    /\ Len(Get(ret.response).Data) = 1

\* the keys without their overrides
WithoutOverrides(keys) == [i \in 1..Len(keys) |-> [keys[i] EXCEPT !.ApertusKeyConfig = None]]

Descriptors(response) == {response.Data[i] : i \in 1..Len(response.Data)}

\* C20: the descriptors ListModels returns are those it returns for the same
\* keys without their overrides, in whatever order, so that key lists with
\* the same allowed-model lists get the same descriptors; they name the
\* configured models; no handler is called and no base URL is resolved.
C20_ListModelsIgnoresOverrides ==
    Listed =>
       LET keys == Get(req).keys
       IN  /\ \A order \in Perms(ModelSet(WithoutOverrides(keys))) :
                 Descriptors(ListModelsResponse(WithoutOverrides(keys), order, OwnIdentity))
                    = Descriptors(Get(ret.response))
           /\ \A d \in Descriptors(Get(ret.response)) : d.ID[3] \in NamesOf(keys)
           /\ ~IsSome(sent) /\ ~IsSome(temp)
           /\ \A i \in 1..Len(steps) : steps[i] = "CheckOperationAllowed"

\* C20 happens: a key maps the model it allows to another name and
\* ListModels lists the model under the name the key allows.
C20_Witness ==
    /\ Listed
    /\ Len(Get(req).keys) = 1
    /\ Get(req).keys[1].Models = <<"a">>
    /\ IsSome(Get(req).keys[1].ApertusKeyConfig)
    /\ Get(ret.response).Data = <<[ID |-> <<Apertus, "/", "a">>, OwnedBy |-> "system"]>>

\* an operation got past the gate and invoked its handler
Invoked(ops) == Called(ops) /\ ~IsSome(Get(req).gate)

\* two results that differ at most in the provider they name
SameButIdentity(x, y) ==
    /\ IsSome(x.error) <=> IsSome(y.error)
    /\ IsSome(x.error) => [Get(x.error) EXCEPT !.Provider = ""] = [Get(y.error) EXCEPT !.Provider = ""]

\* C21: an operation that passes the gate invokes its handler exactly once,
\* and the error the handler produces is the error the caller gets, the
\* provider it names apart.
C21_OnceAndUnmodified ==
    Invoked(DirectOps \cup DelegatedOps) =>
       /\ IsSome(sent)
       /\ Cardinality({i \in 1..Len(steps) : steps[i] = Get(sent).handler}) = 1
       /\ SameButIdentity(produced, ret)
       /\ Called(DirectOps) => ret = produced

\* C21 happens: the handler of a chat completion failed and the caller got
\* its error.
C21_Witness ==
    /\ Invoked({"ChatCompletion"})
    /\ IsSome(produced.error)
    /\ ret.error = produced.error
    /\ steps = <<"CheckOperationAllowed", "getBaseURL", "HandleOpenAIChatCompletionRequest">>

(***************************************************************************)
(* Further properties of the codec.                                        *)
(***************************************************************************)
\* the override groups of which the row has a non-null column, and those of
\* which the struct holds a value
StoredGroups(key) == {g \in Groups : \E c \in GroupColumns(g) : IsSome(key[c])}
PresentGroups(key) == {g \in Groups : IsSome(key[GroupField(g)])}

C23_PersistenceKeepsResolution ==
    RoundTripDone =>
       /\ \A configured \in URLs :
             getBaseURL(NewApertusProvider(configured), k)
                = getBaseURL(NewApertusProvider(configured), orig)
       /\ \A userModel \in RequestedModels : getModelName(k, userModel) = getModelName(orig, userModel)

\* the struct with the columns and the value of every override group but g
\* set to nil
Isolated(key, g) ==
    [f \in DOMAIN TableKey |->
        IF \E h \in Groups \ {g} : f \in GroupColumns(h) \/ f = GroupField(h)
        THEN TableKey[f] ELSE key[f]]

\* C24: the columns BeforeSave writes for an override group are those it
\* writes when the other groups are absent, and the value AfterFind leaves
\* for a group is the one it leaves when the columns of the other groups are
\* null, whatever those columns hold.
C24_GroupsIndependent ==
    /\ pc = "saved" =>
          \A g \in Groups : \E keyOrder \in BedrockKeyOrders(Isolated(pre, g)) :
             \A c \in GroupColumns(g) : k[c] = BeforeSave(Isolated(pre, g), keyOrder)[c]
    /\ pc \in {"found", "failed"} =>
          \A g \in Groups : k[GroupField(g)] = AfterFind(Isolated(pre, g)).k[GroupField(g)]

\* C24, amended: the columns BeforeSave writes for an override group are
\* those it writes when the other groups are absent, and when AfterFind
\* returns no error the value it leaves for a group is the one it leaves
\* when the columns of the other groups are null.
C24_GroupsIndependentOnSuccess ==
    /\ pc = "saved" =>
          \A g \in Groups : \E keyOrder \in BedrockKeyOrders(Isolated(pre, g)) :
             \A c \in GroupColumns(g) : k[c] = BeforeSave(Isolated(pre, g), keyOrder)[c]
    /\ pc = "found" =>
          \A g \in Groups : k[GroupField(g)] = AfterFind(Isolated(pre, g)).k[GroupField(g)]

\* C24 happens: a row holds an Azure endpoint and an Apertus endpoint, and
\* AfterFind rebuilds both overrides.
C24_Witness ==
    /\ pc = "found"
    /\ Fresh(pre)
    /\ IsSome(pre.AzureEndpoint)
    /\ pre.ApertusEndpoint = Some(<<"h">>)
    /\ IsSome(k.AzureKeyConfig)
    /\ k.ApertusKeyConfig = Some([Endpoint |-> <<"h">>, ModelNameMappings |-> None])

\* C25: the allowed-model list AfterFind reads back from what BeforeSave
\* stored has the elements of the original list in their order, repeated
\* names included; an absent list is read back as an empty list.
C25_ModelsRoundTrip ==
    RoundTripDone =>
       /\ IsSome(k.Models)
       /\ Get(k.Models) = IF IsSome(orig.Models) THEN Get(orig.Models) ELSE << >>

\* C25 happens: a list that names a model twice was saved and read back.
C25_Witness ==
    /\ RoundTripDone
    /\ orig.Models = Some(<<"a", "a">>)
    /\ k.Models = Some(<<"a", "a">>)

(***************************************************************************)
(* Properties of concurrent calls.                                         *)
(***************************************************************************)
\* the URL the call of a thread would go to if it were the only call on the
\* provider as it was constructed
AloneURL(t) ==
    LET constructed == NewApertusProvider(Get(config))
        key == threads[t].given
    IN  IF threads[t].op = "Speech"
        THEN OpenAIRequestURL(NewOpenAIProvider(TempConfig(constructed, key)),
                              <<"/", "v1/audio/speech">>, "speech")
        ELSE buildRequestURL(constructed, customProviderConfig, key,
                             <<"/", "v1/chat/completions">>, "chat_completion")

\* C26: however the steps of concurrent calls interleave, each call sends
\* its request to the URL it would send it to alone, and no step changes the
\* provider's stored configuration or a key.
C26_ConcurrentCallsIndependent ==
    /\ IsSome(provider) => Get(provider) = NewApertusProvider(Get(config))
    /\ \A t \in Threads :
          /\ threads[t].key = threads[t].given
          /\ threads[t].pc = "done" => threads[t].url = Some(AloneURL(t))

\* C26 happens: a call with an endpoint and a call without one were both
\* under way on a provider with another default, and both are done.
C26_Witness ==
    /\ threads["t1"].pc = "done" /\ threads["t2"].pc = "done"
    /\ threads["t1"].op = "Speech" /\ threads["t2"].op = "ChatCompletion"
    /\ threads["t1"].given.ApertusKeyConfig = Some([Endpoint |-> <<"h", "/">>, ModelNameMappings |-> None])
    /\ threads["t2"].given.ApertusKeyConfig = None
    /\ Get(config) = EmptyString
    /\ ~IsSome(customProviderConfig)
    /\ threads["t1"].url = Some(<<"h", "/", "v1/audio/speech">>)
    /\ threads["t2"].url = Some(<<"o", "/", "v1/chat/completions">>)

(***************************************************************************)
(* Order of the listed models.                                             *)
(***************************************************************************)
\* C27: every response ListModels can give for the keys of a call is the
\* response the call gave, so that two calls with the same keys return the
\* descriptors in the same order.
C27_ListModelsSameOrder ==
    Listed =>
       \A order \in Perms(ModelSet(Get(req).keys)) :
          ListModelsResponse(Get(req).keys, order, GetProviderKey(customProviderConfig))
             = Get(ret.response)

(***************************************************************************)
(* Properties of the provider row.                                         *)
(***************************************************************************)
\* C28: when a saved provider row has been read back, the struct holds
\* exactly the configurations that were in memory at the latest BeforeSave,
\* and none that was absent then.
C28_LatestSaveRestored ==
    tppc = "restored" =>
       \A i \in 1..Len(ProviderConfigFields) :
          tp[ProviderConfigFields[i]] = tplast[ProviderConfigFields[i]]

(***************************************************************************)
(* Overrides after a read into a struct that held some.                    *)
(***************************************************************************)
\* C29: after a successful AfterFind, a group whose columns were all null in
\* the row has no override value in memory, whatever the struct held before
\* the call.
C29_NullGroupIsAbsent ==
    pc = "found" =>
       \A g \in Groups :
          (\A col \in GroupColumns(g) : ~IsSome(pre[col])) => ~IsSome(k[GroupField(g)])

(***************************************************************************)
(* A request dispatched twice.                                             *)
(***************************************************************************)
\* both dispatches of the request sent the same model
SameModelSent == IsSome(first) => Get(first).model = Get(sent).model

\* C30: when a request has been dispatched twice with the same key, both
\* dispatches sent the same model, and that model is what the key's mapping
\* gives the model the request named at first.
C30_RedispatchStable ==
    /\ SameModelSent
    /\ IsSome(first) => Get(sent).model = getModelName(Get(req).key, Get(req).model)

====
